---- MODULE Spec2Model ----
(***************************************************************************)
(* lcd (src/lcd.go): a directory index (generateDatabase), its search      *)
(* (searchDatabaseOptimized) and the control flow of main that joins them. *)
(*                                                                         *)
(* Strings are sequences of one-character strings; the snapshot file is    *)
(* the sequence of bytes os.Create/bufio.Writer leave on disk, and is cut  *)
(* into lines the way bufio.Scanner cuts it.                               *)
(***************************************************************************)
EXTENDS Integers, Sequences, FiniteSets, TLC

\* ------------------------------------------------------------------ bounds
\* SpecResolve: the snapshot file is any byte string of at most MaxFile bytes
\* over FileAlphabet, the term any non-empty string of at most MaxTerm letters.
MaxFile == 7
MaxTerm == 1

\* ------------------------------------------------------------- strings
NL == "\n"
SLASH == "/"

\* strings.ToLower on one byte (the letters the model uses in upper case).
lowerByte(c) ==
    CASE c = "A" -> "a"
      [] c = "G" -> "g"
      [] c = "H" -> "h"
      [] OTHER -> c

\* strings.ToLower
ToLower(s) == [i \in 1..Len(s) |-> lowerByte(s[i])]

\* strings.Contains(s, sub): sub occurs in s as a contiguous substring.
Contains(s, sub) ==
    \E i \in 0..(Len(s) - Len(sub)) : SubSeq(s, i + 1, i + Len(sub)) = sub

\* strings.LastIndexByte(s, c), 0-based, -1 when c does not occur.
LastIndexByte(s, c) ==
    LET hits == {i \in 1..Len(s) : s[i] = c}
    IN  IF hits = {} THEN -1
        ELSE (CHOOSE i \in hits : \A j \in hits : j <= i) - 1

\* The set of strings over alphabet A of length lo..hi.
Strings(A, lo, hi) == UNION {[1..n -> A] : n \in lo..hi}

\* ------------------------------------------------------ bufio.Scanner
\* bufio.ScanLines drops one trailing carriage return of a line.
dropCR(line) ==
    IF Len(line) > 0 /\ line[Len(line)] = "\r"
    THEN SubSeq(line, 1, Len(line) - 1)
    ELSE line

\* The tokens successive scanner.Scan() calls return for a file: the text
\* between newlines; a last line without a newline counts when non-empty.
RECURSIVE ScanLines(_)
ScanLines(bytes) ==
    LET nls == {i \in 1..Len(bytes) : bytes[i] = NL}
    IN  IF nls = {}
        THEN IF bytes = <<>> THEN <<>> ELSE <<dropCR(bytes)>>
        ELSE LET k == CHOOSE i \in nls : \A j \in nls : i <= j
             IN  <<dropCR(SubSeq(bytes, 1, k - 1))>>
                     \o ScanLines(SubSeq(bytes, k + 1, Len(bytes)))

\* ------------------------------------------- searchDatabaseOptimized
\* int(^uint(0) >> 1): the largest int, the initial "no candidate" length.
\* (Any value above every path length plays the same role.)
MaxInt == 2147483647

\* name := path[lastSlash+1:], or the whole path without a slash.
baseName(path) ==
    LET lastSlash == LastIndexByte(path, SLASH)
    IN  IF lastSlash >= 0 THEN SubSeq(path, lastSlash + 2, Len(path)) ELSE path

\* The loop's state before the first body line.
searchInit ==
    [bestExact |-> <<>>, bestExactLen |-> MaxInt,
     bestPartial |-> <<>>, bestPartialLen |-> MaxInt]

\* searchStep with "<=" for "<" in the two length tests: of two candidates
\* of the same length the later one is kept.
searchStepLastWins(st, path, termLower) ==
    LET nameLower == ToLower(baseName(path))
        pathLen == Len(path)
    IN  IF nameLower = termLower
        THEN IF pathLen <= st.bestExactLen
             THEN [st EXCEPT !.bestExact = path, !.bestExactLen = pathLen]
             ELSE st
        ELSE IF Contains(nameLower, termLower)
             THEN IF pathLen <= st.bestPartialLen
                  THEN [st EXCEPT !.bestPartial = path, !.bestPartialLen = pathLen]
                  ELSE st
             ELSE st

\* One iteration of the for scanner.Scan() loop on body line path.
searchStep(st, path, termLower) ==
    LET nameLower == ToLower(baseName(path))
        pathLen == Len(path)
    IN  IF nameLower = termLower
        THEN IF pathLen < st.bestExactLen
             THEN [st EXCEPT !.bestExact = path, !.bestExactLen = pathLen]
             ELSE st
        ELSE IF Contains(nameLower, termLower)
             THEN IF pathLen < st.bestPartialLen
                  THEN [st EXCEPT !.bestPartial = path, !.bestPartialLen = pathLen]
                  ELSE st
             ELSE st

RECURSIVE searchLoop(_, _, _, _)
searchLoop(st, lines, i, termLower) ==
    IF i > Len(lines) THEN st
    ELSE searchLoop(searchStep(st, lines[i], termLower), lines, i + 1, termLower)

\* searchReturn that hands back the shorter of the two best candidates.
searchReturnShortest(st, term) ==
    IF st.bestExact # <<>> /\ st.bestExactLen <= st.bestPartialLen
    THEN [err |-> "nil", path |-> st.bestExact, term |-> term]
    ELSE IF st.bestPartial # <<>>
         THEN [err |-> "nil", path |-> st.bestPartial, term |-> term]
         ELSE IF st.bestExact # <<>>
              THEN [err |-> "nil", path |-> st.bestExact, term |-> term]
              ELSE [err |-> "NotFound", path |-> <<>>, term |-> term]

\* What the function returns once the loop has ended.
searchReturn(st, term) ==
    IF st.bestExact # <<>>
    THEN [err |-> "nil", path |-> st.bestExact, term |-> term]
    ELSE IF st.bestPartial # <<>>
         THEN [err |-> "nil", path |-> st.bestPartial, term |-> term]
         ELSE [err |-> "NotFound", path |-> <<>>, term |-> term]

\* searchDatabaseOptimized without the scanner.Scan() that skips the header.
searchDatabaseNoSkip(file, term) ==
    IF ~file.exists
    THEN [err |-> "Open", path |-> <<>>, term |-> term]
    ELSE searchReturn(
             searchLoop(searchInit, ScanLines(file.bytes), 1, ToLower(term)), term)

\* searchDatabaseOptimized(dbPath, term) on a snapshot file; the first
\* scanner.Scan() skips the header, the loop starts at the second line.
searchDatabaseOptimized(file, term) ==
    IF ~file.exists
    THEN [err |-> "Open", path |-> <<>>, term |-> term]
    ELSE searchReturn(
             searchLoop(searchInit, ScanLines(file.bytes), 2, ToLower(term)), term)

\* ------------------------------------------------------ the file system
\* The directory tree below the user's home directory. An entry is a
\* directory ("dir"), a directory whose listing fails, e.g. for lack of
\* permission ("udir"), anything that is not a directory ("file"), or absent
\* ("none"). A path is the sequence of entry names below the home directory.
MaxDepth == 2
MaxEntries == 3

GitName == <<".", "g", "i", "t">>
HiddenName == <<".", "h">>
PlainName == <<"a">>
\* os.ReadDir returns the entries sorted by file name (byte order).
NameOrder == <<GitName, HiddenName, PlainName>>
Names == {NameOrder[i] : i \in 1..Len(NameOrder)}
Paths == UNION {[1..n -> Names] : n \in 1..MaxDepth}
Kinds == {"dir", "udir", "file"}

\* os.UserHomeDir(): "/a", an existing readable directory.
HomeName == PlainName
homeDir == <<SLASH>> \o HomeName

IsDir(kind) == kind \in {"dir", "udir"}

\* filepath.Join(path, name) of a clean path and an entry name.
Join(path, name) == path \o <<SLASH>> \o name

\* The components of a path string: the text between slashes.
RECURSIVE Components(_)
Components(str) ==
    LET sl == {i \in 1..Len(str) : str[i] = SLASH}
    IN  IF sl = {}
        THEN IF str = <<>> THEN <<>> ELSE <<str>>
        ELSE LET k == CHOOSE i \in sl : \A j \in sl : i <= j
                 rest == Components(SubSeq(str, k + 1, Len(str)))
             IN  IF k = 1 THEN rest ELSE <<SubSeq(str, 1, k - 1)>> \o rest

\* os.Lstat(root): the kind of the entry an absolute path string names in
\* tree t, "none" when there is no such entry.
Lstat(t, str) ==
    LET c == Components(str)
    IN  IF Len(str) = 0 \/ str[1] # SLASH \/ Len(c) = 0 \/ c[1] # HomeName
        THEN "none"
        ELSE IF Len(c) = 1 THEN "dir"
        ELSE LET p == SubSeq(c, 2, Len(c))
             IN  IF p \in Paths THEN t[p] ELSE "none"

\* d.Name(): the last component of the path.
EntryName(str) ==
    LET c == Components(str) IN IF c = <<>> THEN <<>> ELSE c[Len(c)]

\* The names os.ReadDir(path) lists, in its order.
ReadDir(t, str) ==
    LET c == Components(str)
        p == SubSeq(c, 2, Len(c))
        has(n) == p \o <<n>> \in Paths /\ t[p \o <<n>>] # "none"
    IN  SelectSeq(NameOrder, has)

\* ------------------------------------------------------ generateDatabase
\* walkFn whose .git test leaves out d.IsDir(): a file named .git is
\* answered with SkipDir too.
walkFnSkipAnyGit(kind, name, isErr) ==
    IF isErr
    THEN [ret |-> "SkipDir", write |-> FALSE]
    ELSE IF name = GitName
         THEN [ret |-> "SkipDir", write |-> FALSE]
         ELSE IF IsDir(kind)
              THEN [ret |-> "nil", write |-> TRUE]
              ELSE [ret |-> "nil", write |-> FALSE]

\* The callback handed to filepath.WalkDir: what it returns, and whether
\* it wrote path + "\n" to the writer. isErr: WalkDir reports an error for
\* this entry (then d may be nil and kind is not looked at).
walkFn(kind, name, isErr) ==
    IF isErr
    THEN [ret |-> "SkipDir", write |-> FALSE]
    ELSE IF IsDir(kind) /\ name = GitName
         THEN [ret |-> "SkipDir", write |-> FALSE]
         ELSE IF IsDir(kind)
              THEN [ret |-> "nil", write |-> TRUE]
              ELSE [ret |-> "nil", write |-> FALSE]

\* filepath's walkDir(path, d, fn): the callback on the entry, the second
\* callback when its listing fails, then its entries in ReadDir's order; a
\* SkipDir returned for a directory ends that directory only, a SkipDir
\* handed up by an entry ends the listing of its parent.
RECURSIVE walkDir(_, _)
RECURSIVE walkEntries(_, _, _, _)
walkDir(t, path) ==
    LET kind == Lstat(t, path)
        r1 == walkFn(kind, EntryName(path), FALSE)
        own == IF r1.write THEN <<path>> ELSE <<>>
    IN  IF r1.ret # "nil" \/ ~IsDir(kind)
        THEN [lines |-> own,
              ret |-> IF r1.ret = "SkipDir" /\ IsDir(kind) THEN "nil" ELSE r1.ret]
        ELSE IF kind = "udir"
             THEN LET r2 == walkFn(kind, EntryName(path), TRUE)
                  IN  [lines |-> own,
                       ret |-> IF r2.ret = "SkipDir" /\ IsDir(kind)
                               THEN "nil" ELSE r2.ret]
             ELSE LET sub == walkEntries(t, path, ReadDir(t, path), 1)
                  IN  [lines |-> own \o sub.lines, ret |-> sub.ret]

walkEntries(t, path, names, i) ==
    IF i > Len(names) THEN [lines |-> <<>>, ret |-> "nil"]
    ELSE LET r == walkDir(t, Join(path, names[i]))
         IN  IF r.ret = "SkipDir" THEN [lines |-> r.lines, ret |-> "nil"]
             ELSE IF r.ret # "nil" THEN r
             ELSE LET rest == walkEntries(t, path, names, i + 1)
                  IN  [lines |-> r.lines \o rest.lines, ret |-> rest.ret]

\* WalkDir whose callback writes the entries below the root only.
WalkDirNoRoot(t, root) ==
    LET r == IF Lstat(t, root) = "none"
             THEN [lines |-> <<>>, ret |-> walkFn("none", <<>>, TRUE).ret]
             ELSE walkDir(t, root)
    IN  [lines |-> IF r.lines # <<>> /\ r.lines[1] = root THEN Tail(r.lines)
                   ELSE r.lines,
         err |-> IF r.ret = "SkipDir" THEN "nil" ELSE r.ret]

\* filepath.WalkDir(root, fn): the lines the callback writes and the error
\* WalkDir returns. A root that os.Lstat cannot find gets one callback with
\* the error and a nil entry; a SkipDir that reaches WalkDir becomes nil.
WalkDir(t, root) ==
    LET r == IF Lstat(t, root) = "none"
             THEN [lines |-> <<>>, ret |-> walkFn("none", <<>>, TRUE).ret]
             ELSE walkDir(t, root)
    IN  [lines |-> r.lines, err |-> IF r.ret = "SkipDir" THEN "nil" ELSE r.ret]

\* The bytes of a sequence of lines, each followed by "\n".
RECURSIVE Flatten(_)
Flatten(lines) ==
    IF lines = <<>> THEN <<>>
    ELSE lines[1] \o <<NL>> \o Flatten(Tail(lines))

\* What generateDatabase has handed to its bufio.Writer when the walk
\* returns: the header baseDir + "\n", then each line the callback wrote.
\* (The files of the model stay far below the writer's 4096-byte buffer, so
\* nothing reaches the file before the Flush and no WriteString fails.)
snapshotBytes(t, baseDir) ==
    baseDir \o <<NL>> \o Flatten(WalkDir(t, baseDir).lines)

\* A write of data at byte offset off of a file (holes read as NUL bytes).
WriteAt(bytes, off, data) ==
    LET n == IF Len(bytes) > off + Len(data) THEN Len(bytes) ELSE off + Len(data)
    IN  [k \in 1..n |->
            IF k > off /\ k <= off + Len(data) THEN data[k - off]
            ELSE IF k <= Len(bytes) THEN bytes[k] ELSE "NUL"]

\* ------------------------------------------------------------------ main
\* strings.TrimSpace
IsSpace(c) == c \in {" ", "\t", "\r", NL}
RECURSIVE TrimSpace(_)
TrimSpace(s) ==
    IF s = <<>> THEN s
    ELSE IF IsSpace(s[1]) THEN TrimSpace(Tail(s))
    ELSE IF IsSpace(s[Len(s)]) THEN TrimSpace(SubSeq(s, 1, Len(s) - 1))
    ELSE s

\* mainRescan without "cfg.rescan = true" in the -newbasedir branch.
mainRescanNoNewBase(rescanFlag, newBaseDir, file) ==
    rescanFlag \/ ~file.exists

\* cfg.rescan once steps 1 and 2 of main have run: the -rescan flag, or no
\* snapshot file (os.Stat says it does not exist), or a -newbasedir.
mainRescan(rescanFlag, newBaseDir, file) ==
    rescanFlag \/ ~file.exists \/ newBaseDir # <<>>

\* mainBaseDir that reads the stored header whenever there is a snapshot
\* file, also on a rescan.
mainBaseDirKeepsHeader(rescanFlag, newBaseDir, file) ==
    IF newBaseDir # <<>> THEN newBaseDir
    ELSE IF file.exists
         THEN LET lines == ScanLines(file.bytes)
                  storedBase == IF lines = <<>> THEN <<>> ELSE TrimSpace(lines[1])
              IN  IF storedBase # <<>> THEN storedBase ELSE homeDir
         ELSE homeDir

\* baseDir once step 2 of main has run.
mainBaseDir(rescanFlag, newBaseDir, file) ==
    IF newBaseDir # <<>> THEN newBaseDir
    ELSE IF ~(rescanFlag \/ ~file.exists)
         THEN LET lines == ScanLines(file.bytes)
                  storedBase == IF lines = <<>> THEN <<>> ELSE TrimSpace(lines[1])
              IN  IF storedBase # <<>> THEN storedBase ELSE homeDir
         ELSE homeDir

\* main without the test of generateDatabase's result.
scanFailedIgnored(err) == FALSE

\* main's test of generateDatabase's result: err != nil ends the invocation.
scanFailed(err) == err # "nil"

\* ------------------------------------------------------------------ state
VARIABLES
    fs,       \* the directory tree: Paths -> kind or "none"
    db,       \* the snapshot file ~/.lcd-tree.txt: [exists, bytes]
    gen,      \* per process, its call of generateDatabase:
              \*   [pc, baseDir, open, off, buf, err]
    pc,       \* where the invocation of main (or the caller) stands
    cfg,      \* Config: [rescan, newBaseDir, searchTerm]
    baseDir,  \* main's baseDir
    out,      \* how the invocation ended: [exit, res]
    inv       \* what the running invocation started from and did so far:
              \*   [rescanFlag, hadDb, dbAtStart, scanned, searched]

vars == <<fs, db, gen, pc, cfg, baseDir, out, inv>>

Procs == {1, 2}

EmptyTree == [p \in Paths |-> "none"]
NoFile == [exists |-> FALSE, bytes |-> <<>>]
GenIdle == [pc |-> "idle", baseDir |-> <<>>, open |-> FALSE, off |-> 0,
            buf |-> <<>>, err |-> "nil"]
NoCfg == [rescan |-> FALSE, newBaseDir |-> <<>>, searchTerm |-> <<>>]
NoRes == [err |-> "none", path |-> <<>>, term |-> <<>>]
NoOut == [exit |-> "none", res |-> NoRes]
NoInv == [rescanFlag |-> FALSE, hadDb |-> FALSE, dbAtStart |-> NoFile,
          scanned |-> FALSE, searched |-> FALSE]

\* generateDatabase(dbPath, baseDir) is entered by process i.
genCall(i, root) == [gen EXCEPT ![i] = [GenIdle EXCEPT !.pc = "create", !.baseDir = root]]

\* os.Create(dbPath) and the deferred Close's registration: the file is
\* created or truncated and opened at offset 0; when it cannot be (ok is
\* FALSE) generateDatabase returns the error and the file stays as it was.
GenCreate(i, ok) ==
    /\ gen[i].pc = "create"
    /\ IF ok
       THEN /\ db' = [exists |-> TRUE, bytes |-> <<>>]
            /\ gen' = [gen EXCEPT ![i].pc = "walk", ![i].open = TRUE, ![i].off = 0]
       ELSE /\ db' = db
            /\ gen' = [gen EXCEPT ![i].pc = "done", ![i].err = "create"]
    /\ UNCHANGED <<fs, pc, cfg, baseDir, out, inv>>

\* The header and the walk: everything goes to the writer's buffer.
GenWalk(i) ==
    /\ gen[i].pc = "walk"
    /\ LET w == WalkDir(fs, gen[i].baseDir)
       IN  IF w.err # "nil"
           THEN gen' = [gen EXCEPT ![i].pc = "done", ![i].open = FALSE,
                                   ![i].err = w.err]
           ELSE gen' = [gen EXCEPT ![i].pc = "flush",
                                   ![i].buf = snapshotBytes(fs, gen[i].baseDir)]
    /\ UNCHANGED <<fs, db, pc, cfg, baseDir, out, inv>>

\* return writer.Flush(), then the deferred file.Close(): one write of the
\* buffer at the file's offset. The write stores n bytes; fewer than the
\* buffer holds is a write error, which Flush returns.
GenFlush(i, n) ==
    /\ gen[i].pc = "flush"
    /\ n \in 0..Len(gen[i].buf)
    /\ db' = [db EXCEPT !.bytes = WriteAt(db.bytes, gen[i].off,
                                          SubSeq(gen[i].buf, 1, n))]
    /\ gen' = [gen EXCEPT ![i].pc = "done", ![i].open = FALSE,
                          ![i].off = gen[i].off + n,
                          ![i].err = IF n = Len(gen[i].buf) THEN "nil" ELSE "write"]
    /\ UNCHANGED <<fs, pc, cfg, baseDir, out, inv>>

\* main, steps 1 to 3 up to the call of generateDatabase (lines 70-103).
MainStart(rescanFlag, newBaseDir, searchTerm) ==
    /\ pc = "idle"
    /\ LET rescan == mainRescan(rescanFlag, newBaseDir, db)
           base == mainBaseDir(rescanFlag, newBaseDir, db)
       IN  /\ cfg' = [rescan |-> rescan, newBaseDir |-> newBaseDir,
                      searchTerm |-> searchTerm]
           /\ baseDir' = base
           /\ inv' = [rescanFlag |-> rescanFlag, hadDb |-> db.exists,
                      dbAtStart |-> db, scanned |-> rescan, searched |-> FALSE]
           /\ IF rescan
              THEN pc' = "scan" /\ gen' = genCall(1, base)
              ELSE pc' = "search" /\ gen' = [gen EXCEPT ![1] = GenIdle]
    /\ out' = NoOut
    /\ UNCHANGED <<fs, db>>

\* main, the rest of step 3 (lines 104-115): generateDatabase has returned.
MainScanReturn ==
    /\ pc = "scan"
    /\ gen[1].pc = "done"
    /\ IF scanFailed(gen[1].err)
       THEN pc' = "idle" /\ out' = [exit |-> "fatal", res |-> NoRes]
       ELSE IF cfg.searchTerm = <<>>
            THEN pc' = "idle" /\ out' = [exit |-> "updated", res |-> NoRes]
            ELSE pc' = "search" /\ out' = out
    /\ UNCHANGED <<fs, db, gen, cfg, baseDir, inv>>

\* main, step 4 onwards (lines 117-145): the search and the hand-over of
\* the match to print, clipboard or shell.
MainSearch ==
    /\ pc = "search"
    /\ IF cfg.searchTerm = <<>>
       THEN out' = [exit |-> "fatal", res |-> NoRes] /\ inv' = inv
       ELSE LET r == searchDatabaseOptimized(db, cfg.searchTerm)
            IN  /\ out' = [exit |-> IF r.err # "nil" THEN "fatal" ELSE "match",
                           res |-> r]
                /\ inv' = [inv EXCEPT !.searched = TRUE]
    /\ pc' = "idle"
    /\ UNCHANGED <<fs, db, gen, cfg, baseDir>>

\* ------------------------------------------------- Spec: runs of main
\* The trees the runs of main see: the home directory with at most one
\* entry; the -newbasedir arguments and search terms they are given ("" is
\* the flag or the argument left out).
MainTrees ==
    {EmptyTree} \cup {[EmptyTree EXCEPT ![<<n>>] = k] : n \in Names, k \in Kinds}
MainNewBaseDirs == {<<>>, Join(homeDir, HiddenName)}
MainTerms == {<<>>, <<"a">>, <<"H">>}

Init ==
    /\ fs \in MainTrees
    /\ db = NoFile
    /\ gen = [i \in Procs |-> GenIdle]
    /\ pc = "idle"
    /\ cfg = NoCfg
    /\ baseDir = <<>>
    /\ out = NoOut
    /\ inv = NoInv

Next ==
    \/ \E r \in BOOLEAN, nbd \in MainNewBaseDirs, term \in MainTerms :
          MainStart(r, nbd, term)
    \/ \E ok \in BOOLEAN : GenCreate(1, ok)
    \/ GenWalk(1)
    \/ \E n \in 0..Len(gen[1].buf) : GenFlush(1, n)
    \/ MainScanReturn
    \/ MainSearch

Spec == Init /\ [][Next]_vars

\* ------------------------------ SpecScan: BuildSnapshot, then Resolve
\* The environment makes an entry below the home directory.
MkEntry(p, k) ==
    /\ pc = "setup"
    /\ fs[p] = "none"
    /\ Len(p) > 1 => IsDir(fs[SubSeq(p, 1, Len(p) - 1)])
    /\ Cardinality({q \in Paths : fs[q] # "none"}) < MaxEntries
    /\ fs' = [fs EXCEPT ![p] = k]
    /\ UNCHANGED <<db, gen, pc, cfg, baseDir, out, inv>>

\* BuildSnapshot(root): generateDatabase is called on root.
BuildSnapshot(root) ==
    /\ pc = "setup"
    /\ pc' = "building"
    /\ baseDir' = root
    /\ gen' = genCall(1, root)
    /\ out' = NoOut
    /\ UNCHANGED <<fs, db, cfg, inv>>

BuildSnapshotReturn ==
    /\ pc = "building"
    /\ gen[1].pc = "done"
    /\ pc' = "ready"
    /\ UNCHANGED <<fs, db, gen, cfg, baseDir, out, inv>>

\* Resolve(snapshot, term): searchDatabaseOptimized is called on the file.
Resolve(term) ==
    /\ pc = "ready"
    /\ pc' = "resolved"
    /\ cfg' = [cfg EXCEPT !.searchTerm = term]
    /\ out' = [exit |-> "none", res |-> searchDatabaseOptimized(db, term)]
    /\ UNCHANGED <<fs, db, gen, baseDir, inv>>

ScanRoots ==
    {homeDir, Join(homeDir, GitName), Join(homeDir, HiddenName),
     Join(Join(homeDir, GitName), PlainName)}
ScanTerms == {<<"a">>, <<"A">>, <<".", "H">>}

InitScan ==
    /\ fs = EmptyTree
    /\ db = NoFile
    /\ gen = [i \in Procs |-> GenIdle]
    /\ pc = "setup"
    /\ cfg = NoCfg
    /\ baseDir = <<>>
    /\ out = NoOut
    /\ inv = NoInv

NextScan ==
    \/ \E p \in Paths, k \in Kinds : MkEntry(p, k)
    \/ \E root \in ScanRoots : BuildSnapshot(root)
    \/ GenCreate(1, TRUE)
    \/ GenWalk(1)
    \/ GenFlush(1, Len(gen[1].buf))
    \/ BuildSnapshotReturn
    \/ \E term \in ScanTerms : Resolve(term)

SpecScan == InitScan /\ [][NextScan]_vars

\* ---------------------------- SpecResolve: Resolve on any snapshot file
FileAlphabet == {SLASH, "a", "A", NL}
TermAlphabet == {"a", "A"}

InitResolve ==
    /\ fs = EmptyTree
    /\ db \in {[exists |-> TRUE, bytes |-> b] : b \in Strings(FileAlphabet, 0, MaxFile)}
    /\ gen = [i \in Procs |-> GenIdle]
    /\ pc = "ready"
    /\ cfg = NoCfg
    /\ baseDir = <<>>
    /\ out = NoOut
    /\ inv = NoInv

NextResolve == \E term \in Strings(TermAlphabet, 1, MaxTerm) : Resolve(term)

SpecResolve == InitResolve /\ [][NextResolve]_vars

\* --------------------------- SpecRace: two invocations rescan at once
\* Process i runs lcd -rescan, with or without -newbasedir, up to its call
\* of generateDatabase.
RaceStart(i, newBaseDir) ==
    /\ gen[i].pc = "idle"
    /\ gen' = genCall(i, mainBaseDir(TRUE, newBaseDir, db))
    /\ UNCHANGED <<fs, db, pc, cfg, baseDir, out, inv>>

InitRace ==
    /\ fs \in MainTrees
    /\ db = NoFile
    /\ gen = [i \in Procs |-> GenIdle]
    /\ pc = "race"
    /\ cfg = NoCfg
    /\ baseDir = <<>>
    /\ out = NoOut
    /\ inv = NoInv

NextRace ==
    \/ \E i \in Procs, nbd \in MainNewBaseDirs : RaceStart(i, nbd)
    \/ \E i \in Procs : GenCreate(i, TRUE)
    \/ \E i \in Procs : GenWalk(i)
    \/ \E i \in Procs : GenFlush(i, Len(gen[i].buf))

SpecRace == InitRace /\ [][NextRace]_vars

\* ================================================================ claims
\* The vocabulary of the claims, stated apart from the code's operators.
CasePairs == {{"a", "A"}, {"g", "G"}, {"h", "H"}}
SameLetter(c, d) == c = d \/ {c, d} \in CasePairs
\* s and t are equal up to the case of their letters.
CaseEq(s, t) == Len(s) = Len(t) /\ \A i \in 1..Len(s) : SameLetter(s[i], t[i])
\* The text of a line after its last "/", the whole line without one.
BaseOf(line) ==
    LET sl == {i \in 1..Len(line) : line[i] = SLASH}
        last == IF sl = {} THEN 0 ELSE CHOOSE i \in sl : \A j \in sl : j <= i
    IN  SubSeq(line, last + 1, Len(line))
IsExact(line, term) == CaseEq(BaseOf(line), term)
HasTerm(line, term) ==
    LET b == BaseOf(line)
    IN  \E i \in 0..(Len(b) - Len(term)) : CaseEq(SubSeq(b, i + 1, i + Len(term)), term)
\* The lines of the snapshot file after the first.
Body(file) == LET l == ScanLines(file.bytes) IN SubSeq(l, 2, Len(l))
Header(file) == LET l == ScanLines(file.bytes) IN IF l = <<>> THEN <<>> ELSE l[1]
ExactAt(term) == LET b == Body(db) IN {i \in 1..Len(b) : IsExact(b[i], term)}
MatchAt(term) == LET b == Body(db) IN {i \in 1..Len(b) : HasTerm(b[i], term)}
\* Resolve has been applied to the file, with the non-empty term cfg.searchTerm.
Resolved == out.res.err \in {"nil", "NotFound"} /\ cfg.searchTerm # <<>>

\* C1: whenever some body line's base name equals the term up to case,
\* Resolve returns one of those lines, whatever the other lines and their
\* order, also when a line whose base name merely contains the term is
\* strictly shorter; a merely containing line is returned only when no
\* body line is an exact candidate.
C1_ExactDominatesPartial ==
    Resolved =>
        LET term == cfg.searchTerm
            b == Body(db)
        IN  /\ ExactAt(term) # {} =>
                /\ out.res.err = "nil"
                /\ \E i \in ExactAt(term) : b[i] = out.res.path
            /\ (out.res.err = "nil" /\ ~IsExact(out.res.path, term)) =>
                ExactAt(term) = {}

\* C1's case: an exact candidate wins over a strictly shorter partial one.
C1_Witness ==
    /\ Resolved
    /\ IsExact(out.res.path, cfg.searchTerm)
    /\ \E j \in MatchAt(cfg.searchTerm) \ ExactAt(cfg.searchTerm) :
          Len(Body(db)[j]) < Len(out.res.path)

C6_FoundIffBodyMatch ==
    Resolved =>
        LET term == cfg.searchTerm
            b == Body(db)
        IN  /\ out.res.err = "nil" <=> MatchAt(term) # {}
            /\ out.res.err = "nil" => \E i \in MatchAt(term) : b[i] = out.res.path
            /\ out.res.err = "NotFound" => out.res.term = term
            /\ out.res.err \in {"nil", "NotFound"}

\* C6's case: the header contains the term and is passed over, while a body
\* line that contains it only up to case is returned.
C6_Witness ==
    /\ Resolved
    /\ out.res.err = "nil"
    /\ HasTerm(Header(db), cfg.searchTerm)
    /\ Header(db) # out.res.path
    /\ ~Contains(BaseOf(out.res.path), cfg.searchTerm)

\* ------------------------------------------------- BuildSnapshot (SpecScan)
\* BuildSnapshot(baseDir) has returned nil and the file is the snapshot.
Scanned == pc \in {"ready", "resolved"} /\ gen[1].err = "nil"
\* The walk's callback writes the root: an existing directory not named .git.
RootIndexed == IsDir(Lstat(fs, baseDir)) /\ EntryName(baseDir) # GitName
\* The root has no directory directly below it.
NoSubdirs == \A n \in Names : ~IsDir(Lstat(fs, Join(baseDir, n)))
BodyLines == LET b == Body(db) IN {b[i] : i \in 1..Len(b)}

\* C3, as claimed: the root is written as the header only, no body line
\* equals it; a root without subdirectories gives an empty body, and every
\* Resolve after it fails with NotFound.
C3_RootNeverInBody ==
    Scanned =>
        /\ baseDir \notin BodyLines
        /\ (IsDir(Lstat(fs, baseDir)) /\ NoSubdirs) =>
              /\ Body(db) = <<>>
              /\ pc = "resolved" => out.res.err = "NotFound"

\* C3, amended: the root is the header and, when it is an existing
\* directory not named .git, also the first body line and no other one;
\* otherwise the body is empty. A root directory without subdirectories
\* gives a body of the root alone, on which Resolve returns the root when
\* the term is contained, up to case, in the root's base name and fails
\* with NotFound when it is not.
C3_RootIsFirstBodyLine ==
    Scanned =>
        LET b == Body(db)
        IN  /\ Header(db) = baseDir
            /\ IF RootIndexed
               THEN /\ b # <<>>
                    /\ b[1] = baseDir
                    /\ \A i \in 2..Len(b) : b[i] # baseDir
               ELSE b = <<>>
            /\ (RootIndexed /\ NoSubdirs) =>
                  /\ b = <<baseDir>>
                  /\ pc = "resolved" =>
                        IF HasTerm(baseDir, cfg.searchTerm)
                        THEN out.res.err = "nil" /\ out.res.path = baseDir
                        ELSE out.res.err = "NotFound"

\* C3's case: a root without subdirectories was scanned, and Resolve with
\* the root's own base name returned the root.
C3_Witness ==
    /\ Scanned
    /\ pc = "resolved"
    /\ RootIndexed
    /\ NoSubdirs
    /\ CaseEq(BaseOf(baseDir), cfg.searchTerm)
    /\ out.res.path = baseDir

\* The path string of an entry below the home directory.
RECURSIVE PathString(_)
PathString(p) ==
    IF p = <<>> THEN homeDir
    ELSE Join(PathString(SubSeq(p, 1, Len(p) - 1)), p[Len(p)])
IsPrefix(a, b) == Len(a) <= Len(b) /\ SubSeq(b, 1, Len(a)) = a
\* Entry p lies strictly below the root, every directory from the root down
\* to p's parent can be listed, and none from the root down to p is named
\* .git.
Reachable(p) ==
    LET rc == Components(baseDir)
        pc0 == Components(PathString(p))
    IN  /\ IsPrefix(rc, pc0)
        /\ Len(rc) < Len(pc0)
        /\ \A k \in Len(rc)..(Len(pc0) - 1) :
              Lstat(fs, PathString(SubSeq(p, 1, k - 1))) = "dir"
        /\ \A k \in Len(rc)..Len(pc0) : pc0[k] # GitName

\* C5: the body holds no directory named .git (the root or below it) and
\* nothing below one, and it holds every other directory below the root
\* that the walk can reach through listable directories, hidden ones and
\* the siblings of a .git directory or of a .git file included.
C5_OnlyGitIsSkipped ==
    Scanned =>
        LET rc == Components(baseDir)
        IN  /\ \A l \in BodyLines :
                  LET c == Components(l)
                  IN  /\ IsPrefix(rc, c)
                      /\ \A k \in Len(rc)..Len(c) : c[k] # GitName
            /\ \A p \in Paths :
                  (IsDir(fs[p]) /\ Reachable(p)) => PathString(p) \in BodyLines

\* C5's case: the home directory holds .git with a directory inside and,
\* beside it, a hidden directory, which the snapshot lists.
C5_Witness ==
    /\ Scanned
    /\ baseDir = homeDir
    /\ IsDir(fs[<<GitName>>])
    /\ \E n \in Names : IsDir(fs[<<GitName, n>>])
    /\ IsDir(fs[<<HiddenName>>])
    /\ Join(homeDir, HiddenName) \in BodyLines

\* ------------------------------------------------------- runs of main (Spec)
\* An invocation has started; it has ended.
Started == pc # "idle" \/ out.exit # "none"
Finished == pc = "idle" /\ out.exit # "none"
\* The invocation found no snapshot, or was given -rescan or -newbasedir.
ScanAsked == inv.rescanFlag \/ ~inv.hadDb \/ cfg.newBaseDir # <<>>
\* The invocation has created or truncated the snapshot file.
Overwrote == gen[1].pc \in {"walk", "flush", "done"} /\ gen[1].err # "create"
\* The root the claims expect a scan to use.
ExpectedRoot == IF cfg.newBaseDir # <<>> THEN cfg.newBaseDir ELSE homeDir

\* C4, as claimed: when the root does not exist or cannot be listed,
\* generateDatabase returns an error, main reports it and does not search.
C4_RootFailureIsFatal ==
    (inv.scanned /\ gen[1].pc = "done"
        /\ Lstat(fs, gen[1].baseDir) \in {"none", "udir"}) =>
        /\ gen[1].err # "nil"
        /\ ~inv.searched
        /\ pc = "idle" => out.exit = "fatal"

\* C7: an invocation overwrites the snapshot file only if there was none at
\* its start or it was given -rescan or -newbasedir, and then it does
\* (unless the file cannot be created, which ends the invocation with an
\* error); every other invocation, found or not, leaves the file as it was.
C7_OverwriteIffScanAsked ==
    Started =>
        /\ Overwrote => ScanAsked
        /\ ~Overwrote => db = inv.dbAtStart
        /\ (Finished /\ ScanAsked) => (Overwrote \/ gen[1].err = "create")
        /\ (Finished /\ ScanAsked /\ gen[1].err = "create") => out.exit = "fatal"

\* C7's case: a plain search on an existing snapshot that finds nothing.
C7_Witness ==
    /\ Finished
    /\ ~ScanAsked
    /\ inv.searched
    /\ out.res.err = "NotFound"
    /\ db = inv.dbAtStart
    /\ Body(db) # <<>>

\* C8: in an invocation that scans, the search starts only after
\* generateDatabase has handed the header and every line to the writer,
\* flushed all of it to the file and closed the file; a scan that returns
\* an error ends the invocation with an error and without a search.
C8_SearchAfterCompleteScan ==
    /\ gen[1].pc \in {"create", "walk", "flush"} => (pc = "scan" /\ ~inv.searched)
    /\ (inv.scanned /\ (pc = "search" \/ inv.searched)) =>
          /\ gen[1].pc = "done"
          /\ ~gen[1].open
          /\ gen[1].err = "nil"
          /\ gen[1].buf = snapshotBytes(fs, baseDir)
          /\ db = [exists |-> TRUE, bytes |-> gen[1].buf]
    /\ (inv.scanned /\ gen[1].pc = "done" /\ gen[1].err # "nil") =>
          /\ pc # "search"
          /\ ~inv.searched
          /\ pc = "idle" => out.exit = "fatal"

\* C8's case: one invocation scanned, then searched and found a match.
C8_Witness ==
    /\ inv.scanned
    /\ inv.searched
    /\ out.exit = "match"

\* C10: a scan always runs on the -newbasedir root when one was given and
\* on the home directory otherwise, never on the root of the old header;
\* once it has succeeded the header is that root.
C10_ScanRootIsNewOrHome ==
    inv.scanned =>
        /\ baseDir = ExpectedRoot
        /\ gen[1].baseDir = ExpectedRoot
        /\ (gen[1].pc = "done" /\ gen[1].err = "nil") => Header(db) = ExpectedRoot

\* C10's case: -rescan without -newbasedir on a snapshot whose header was
\* another root; the header is the home directory afterwards.
C10_Witness ==
    /\ inv.scanned
    /\ inv.rescanFlag
    /\ cfg.newBaseDir = <<>>
    /\ inv.dbAtStart.exists
    /\ Header(inv.dbAtStart) = Join(homeDir, HiddenName)
    /\ gen[1].pc = "done"
    /\ gen[1].err = "nil"
    /\ Header(db) = homeDir

\* ----------------------------------------------- two rescans (SpecRace)
\* C9, as claimed: once both invocations have finished their scans, the
\* file is the complete snapshot one of them wrote.
C9_LastWriterWins ==
    (\A i \in Procs : gen[i].pc = "done" /\ gen[i].err = "nil") =>
        \E i \in Procs : db = [exists |-> TRUE, bytes |-> gen[i].buf]

====
